---------------------------- MODULE Spec2Model ----------------------------
(***************************************************************************)
(* A model of the zap-desktop node / connection lifecycle:                 *)
(*   - the lnd sync reducer and its syncPercentage selector,               *)
(*   - the WalletUnlocker gRPC service connector (a javascript-state-      *)
(*     machine instance),                                                  *)
(*   - the ZapController state machine that drives onboarding, the local   *)
(*     Neutrino process and the Lightning / WalletUnlocker connectors.     *)
(***************************************************************************)
EXTENDS Integers, Sequences, FiniteSets, TLC

(***************************************************************************)
(* Bounds of the model.                                                    *)
(***************************************************************************)
\* Block heights 0..MaxHeight are received, besides the scenario heights.
MaxHeight == 12

\* The Lightning instances, WalletUnlocker instances and shutdowns of the
\* controller that exist at a time.
MaxLightning == 1

MaxUnlocker == 1

MaxShutdowns == 1
MaxSyncHeight == 2

(***************************************************************************)
(* IEEE-754 binary64 arithmetic, as far as syncPercentage uses it.         *)
(* A positive double 1.f * 2^exp is [hi, mid, lo, exp]: its 53-digit       *)
(* significand is hi * 2^36 + mid * 2^18 + lo, with 2^16 <= hi < 2^17 and  *)
(* mid, lo < 2^18.  The limbs keep every intermediate value below 2^31;    *)
(* the operands n and d of the division are below 2^12.                    *)
(***************************************************************************)
RECURSIVE Pow2(_)
Pow2(k) == IF k = 0 THEN 1 ELSE 2 * Pow2(k - 1)

\* The radix of a limb, and the values of the top limb.
Limb == Pow2(18)

TopMin == Pow2(16)

TopMax == Pow2(17)

\* The e >= 0 with 2^e <= n/d < 2^(e+1), for n >= d.
RECURSIVE ExpUp(_, _, _)
ExpUp(n, d, k) == IF d * Pow2(k + 1) <= n THEN ExpUp(n, d, k + 1) ELSE k

\* The least k >= 1 with n * 2^k >= d, for n < d.
RECURSIVE ExpDown(_, _, _)
ExpDown(n, d, k) == IF n * Pow2(k) >= d THEN k ELSE ExpDown(n, d, k + 1)

\* Round-to-nearest, ties-to-even: the significand hi:mid:lo is followed by
\* the digit guard and by a non-zero tail iff sticky.
RoundNearestEven(hi, mid, lo, exp, guard, sticky) ==
    LET up   == guard = 1 /\ (sticky \/ lo % 2 = 1)
        lo1  == IF up THEN lo + 1 ELSE lo
        mid1 == IF lo1 = Limb THEN mid + 1 ELSE mid
        hi1  == IF mid1 = Limb THEN hi + 1 ELSE hi
    IN  IF hi1 = TopMax
        THEN [hi |-> TopMin, mid |-> 0, lo |-> 0, exp |-> exp + 1]
        ELSE [hi |-> hi1, mid |-> mid1 % Limb, lo |-> lo1 % Limb, exp |-> exp]

\* The double n / d, for integers 0 < n, d < 2^12.
FDiv(n, d) ==
    LET e   == IF n >= d THEN ExpUp(n, d, 0) ELSE 0 - ExpDown(n, d, 1)
        num == IF e >= 0 THEN n ELSE n * Pow2(0 - e)
        den == IF e >= 0 THEN d * Pow2(e) ELSE d
        hi  == (num * TopMin) \div den
        r1  == (num * TopMin) % den
        mid == (r1 * Limb) \div den
        r2  == (r1 * Limb) % den
        lo  == (r2 * Limb) \div den
        r3  == (r2 * Limb) % den
    IN  RoundNearestEven(hi, mid, lo, e, (2 * r3) \div den, (2 * r3) % den > 0)

\* The double x * 100: the exact product has 59 or 60 digits, of which the
\* last 6 or 7 are rounded away.
FMul100(x) ==
    LET p0   == x.lo * 100
        p1   == x.mid * 100 + p0 \div Limb
        p2   == x.hi * 100 + p1 \div Limb
        l0   == p0 % Limb
        l1   == p1 % Limb
        sh   == IF p2 >= Pow2(23) THEN 7 ELSE 6
        cut  == Pow2(sh)
        up   == Limb \div cut
        drop == l0 % cut
    IN  RoundNearestEven(p2 \div cut,
                         (p2 % cut) * up + l1 \div cut,
                         (l1 % cut) * up + l0 \div cut,
                         x.exp + sh,
                         drop \div (cut \div 2),
                         drop % (cut \div 2) > 0)

\* Math.floor of a positive double below 2^31.
FFloor(x) ==
    IF x.exp < 0 THEN 0
    ELSE IF x.exp <= 16 THEN x.hi \div Pow2(16 - x.exp)
    ELSE x.hi * Pow2(x.exp - 16) + x.mid \div Pow2(34 - x.exp)

\* The value the selector returns for "no percentage".
Undefined == -1

\* The selector with the two node heights subtracted instead of added.
syncPercentageOfDifference(blockHeight, lndBlockHeight, lndCfilterHeight) ==
    LET synced == lndBlockHeight - lndCfilterHeight
        total  == blockHeight * 2
    IN  IF total = 0 THEN Undefined
        ELSE IF synced <= 0 THEN 0 - ((100 * (0 - synced)) \div total)
        ELSE FFloor(FMul100(FDiv(synced, total)))

\* Math.floor(((lndBlockHeight + lndCfilterHeight) / (blockHeight * 2)) * 100);
\* a division by zero gives NaN (0/0) or Infinity: undefined.
syncPercentage(blockHeight, lndBlockHeight, lndCfilterHeight) ==
    LET synced == lndBlockHeight + lndCfilterHeight
        total  == blockHeight * 2
    IN  IF total = 0 THEN Undefined
        ELSE IF synced = 0 THEN 0
        ELSE FFloor(FMul100(FDiv(synced, total)))


(***************************************************************************)
(* The state of the model.                                                 *)
(***************************************************************************)
VARIABLES
    \* --- reducers/lnd: the sync tracker -------------------------------
    lnd,          \* the reducer's state (initialState and its successors)
    received,     \* history: the last height received for each counter
    memo,         \* the selector's memo: the last arguments and result
    prevMemo,     \* history: the memo before the last selection
    wallet,       \* the store named 'wallet': <pubKey>.hasSynced, per key
    completed,    \* history: the keys a status 'complete' was received for
    dispatched,   \* history: the actions the last step dispatched
    \* --- lnd/walletUnlocker: one WalletUnlocker instance ---------------
    wuConfig,     \* what its lndConfig leads to: host, cert, macaroon valid?
    wu,           \* the instance: FSM state, pending flag, this.service
    wuCalls,      \* the onBeforeConnect executions in flight: their steps
    wuOpen,       \* the gRPC clients created and not closed
    wuLast,       \* history: the last call or completion and its outcome
    \* --- zap/controller ------------------------------------------------
    zap           \* the ZapController and what its last step did

syncVars == <<wallet, completed, dispatched>>

lndVars == <<lnd, received, memo, prevMemo, wallet, completed, dispatched>>

wuVars == <<wuConfig, wu, wuCalls, wuOpen, wuLast>>

vars == <<lnd, received, memo, prevMemo, wallet, completed, dispatched,
          wuConfig, wu, wuCalls, wuOpen, wuLast, zap>>

(***************************************************************************)
(* javascript-state-machine, as StateMachine.factory installs it: a        *)
(* transition method looks up its target in the current state (seek) and   *)
(* throws when there is none; it throws when an earlier transition is      *)
(* still pending; otherwise it sets the pending flag and runs the          *)
(* lifecycle callbacks.  A callback's promise keeps the transition pending *)
(* until it settles: fulfilled, the state changes (after onBefore<name>)   *)
(* and the flag is cleared; rejected, the flag is cleared and the state    *)
(* stays.                                                                  *)
(***************************************************************************)
NoState == "@none"

\* seek: the target of transition name in state, NoState when it has none.
Seek(transitions, state, name) ==
    LET found == {t \in transitions :
                     t.name = name /\ (t.from = state \/ t.from = "*")}
    IN  IF found = {} THEN NoState ELSE (CHOOSE t \in found : TRUE).to

\* fire/transit without the check of the pending flag.
FireIgnoringPending(transitions, state, pending, name) ==
    IF Seek(transitions, state, name) = NoState THEN "invalid" ELSE "begin"

\* fire/transit: what calling the transition method does first.
Fire(transitions, state, pending, name) ==
    IF Seek(transitions, state, name) = NoState THEN "invalid"
    ELSE IF pending THEN "pending"
    ELSE "begin"

\* can(name)
Can(transitions, state, pending, name) ==
    ~pending /\ Seek(transitions, state, name) # NoState

(***************************************************************************)
(* lnd/walletUnlocker: the WalletUnlocker service connector.               *)
(***************************************************************************)
\* The transitions with disconnect allowed from any state.
WalletUnlockerTransitionsAnyDisconnect ==
    {[name |-> "connect",    from |-> "ready", to |-> "connected"],
     [name |-> "disconnect", from |-> "*",     to |-> "ready"]}

WalletUnlockerTransitions ==
    {[name |-> "connect",    from |-> "ready",     to |-> "connected"],
     [name |-> "disconnect", from |-> "connected", to |-> "ready"]}

\* What calling wu.connect() / wu.disconnect() does first.
WuFire(name) == Fire(WalletUnlockerTransitions, wu.state, wu.pending, name)

\* constructor: this.service = null, and the FSM's init state 'ready'.
NewWalletUnlocker == [state |-> "ready", pending |-> FALSE, service |-> "null"]

NoCall == [op |-> "none", before |-> NewWalletUnlocker, outcome |-> "none",
           inFlight |-> 0, open |-> 0]

\* The record of a call or of a completion, for the claims to read.
WuRecord(op, outcome) ==
    [op |-> op, before |-> wu, outcome |-> outcome,
     inFlight |-> Len(wuCalls), open |-> wuOpen]

RemoveAt(seq, i) == SubSeq(seq, 1, i - 1) \o SubSeq(seq, i + 1, Len(seq))

\* A close() that leaves the channel open.
CloseServiceLeavesOpen ==
    /\ wuOpen' = wuOpen

\* this.service.close()
CloseService ==
    /\ wuOpen' = IF wu.service = "open" THEN wuOpen - 1 ELSE wuOpen

\* connect(): rejected at once, or onBeforeConnect starts with validateHost.
WuConnect ==
    /\ CASE WuFire("connect") = "begin" ->
                /\ wu' = [wu EXCEPT !.pending = TRUE]
                /\ wuCalls' = Append(wuCalls, "validateHost")
                /\ wuLast' = WuRecord("connect", "begin")
         [] OTHER ->
                /\ wuLast' = WuRecord("connect", WuFire("connect"))
                /\ UNCHANGED <<wu, wuCalls>>
    /\ UNCHANGED <<wuConfig, wuOpen>>
    /\ UNCHANGED <<lndVars, zap>>

\* failTransit: the callback's promise rejected.
WuFailTransit(i, error) ==
    /\ wuCalls' = RemoveAt(wuCalls, i)
    /\ wuLast' = WuRecord("connect-settled", error)

\* validateHost(host) settles.
WuValidateHost ==
    \E i \in 1..Len(wuCalls) :
        /\ wuCalls[i] = "validateHost"
        /\ IF wuConfig.host
           THEN /\ wuCalls' = [wuCalls EXCEPT ![i] = "credentials"]
                /\ wuLast' = WuRecord("connect-step", "host-valid")
                /\ UNCHANGED wu
           ELSE /\ WuFailTransit(i, "LND_GRPC_HOST_ERROR")
                /\ wu' = [wu EXCEPT !.pending = FALSE]
        /\ UNCHANGED <<wuConfig, wuOpen>>
        /\ UNCHANGED <<lndVars, zap>>

\* Promise.all([createSslCreds(cert), createMacaroonCreds(macaroon)])
\* settles: rejected with the error of whichever failed first, else the
\* gRPC client is created and waitForReady starts.
WuCredentials ==
    \E i \in 1..Len(wuCalls) :
        /\ wuCalls[i] = "credentials"
        /\ \/ /\ wuConfig.cert /\ wuConfig.macaroon
              /\ wu' = [wu EXCEPT !.service = "open"]
              /\ wuOpen' = wuOpen + 1
              /\ wuCalls' = [wuCalls EXCEPT ![i] = "waitForReady"]
              /\ wuLast' = WuRecord("connect-step", "client-created")
           \/ /\ ~wuConfig.cert
              /\ WuFailTransit(i, "LND_GRPC_CERT_ERROR")
              /\ wu' = [wu EXCEPT !.pending = FALSE]
              /\ UNCHANGED wuOpen
           \/ /\ ~wuConfig.macaroon
              /\ WuFailTransit(i, "LND_GRPC_MACAROON_ERROR")
              /\ wu' = [wu EXCEPT !.pending = FALSE]
              /\ UNCHANGED wuOpen
        /\ UNCHANGED wuConfig
        /\ UNCHANGED <<lndVars, zap>>

\* The waitForReady callback: with an error the client is closed and the
\* transition fails; without, the transition completes: 'connected'.
WuWaitForReady ==
    \E i \in 1..Len(wuCalls) :
        /\ wuCalls[i] = "waitForReady"
        /\ \/ /\ CloseService
              /\ wu' = [wu EXCEPT !.service = "closed", !.pending = FALSE]
              /\ WuFailTransit(i, "DEADLINE_EXCEEDED")
           \/ /\ wu' = [wu EXCEPT !.state = "connected", !.pending = FALSE]
              /\ wuCalls' = RemoveAt(wuCalls, i)
              /\ wuLast' = WuRecord("connect-settled", "connected")
              /\ UNCHANGED wuOpen
        /\ UNCHANGED wuConfig
        /\ UNCHANGED <<lndVars, zap>>

\* disconnect(): rejected at once, or onBeforeDisconnect closes the service
\* and the state is 'ready' again.
WuDisconnect ==
    /\ CASE WuFire("disconnect") = "begin" ->
                /\ IF wu.service # "null"
                   THEN /\ CloseService
                        /\ wu' = [wu EXCEPT !.state = "ready",
                                            !.service = "closed"]
                   ELSE /\ wu' = [wu EXCEPT !.state = "ready"]
                        /\ UNCHANGED wuOpen
                /\ wuLast' = WuRecord("disconnect", "disconnected")
         [] OTHER ->
                /\ wuLast' = WuRecord("disconnect", WuFire("disconnect"))
                /\ UNCHANGED <<wu, wuOpen>>
    /\ UNCHANGED <<wuConfig, wuCalls>>
    /\ UNCHANGED <<lndVars, zap>>

\* registerMethods(event, msg, data): the request goes to this.service,
\* whatever the state of the connector.
WuRegisterMethods ==
    /\ wuLast' = WuRecord("registerMethods",
                          IF wu.service = "null" THEN "no-service"
                          ELSE "forwarded")
    /\ UNCHANGED <<wuConfig, wu, wuCalls, wuOpen>>
    /\ UNCHANGED <<lndVars, zap>>

\* A connector nobody uses.
WuParked ==
    /\ wuConfig = [host |-> TRUE, cert |-> TRUE, macaroon |-> TRUE]
    /\ wu = NewWalletUnlocker
    /\ wuCalls = <<>>
    /\ wuOpen = 0
    /\ wuLast = NoCall

\* new WalletUnlocker(lndConfig), for any lndConfig.
WuInit ==
    /\ wuConfig \in [host : BOOLEAN, cert : BOOLEAN, macaroon : BOOLEAN]
    /\ wu = NewWalletUnlocker
    /\ wuCalls = <<>>
    /\ wuOpen = 0
    /\ wuLast = NoCall

WuNext ==
    \/ WuConnect
    \/ WuValidateHost
    \/ WuCredentials
    \/ WuWaitForReady
    \/ WuDisconnect
    \/ WuRegisterMethods

(***************************************************************************)
(* zap/controller: the ZapController.                                      *)
(*                                                                         *)
(* The controller object is the record zap; an operator named after a      *)
(* method maps the controller before the call to the controller after it,  *)
(* up to the point where the method suspends.  The Lightning connector and *)
(* the Neutrino process appear through the calls the controller makes on   *)
(* them: Lightning is a connector like WalletUnlocker with one more        *)
(* transition, terminate (the graceful stop of the daemon); Neutrino emits *)
(* 'wallet-unlocker-grpc-active' and then 'lightning-grpc-active', once    *)
(* each, and 'close' when the process is gone.                             *)
(***************************************************************************)
ControllerTransitions ==
    {[name |-> "startOnboarding", from |-> "*",          to |-> "onboarding"],
     [name |-> "startLnd",        from |-> "onboarding", to |-> "running"],
     [name |-> "connectLnd",      from |-> "onboarding", to |-> "connected"],
     [name |-> "terminate",       from |-> "*",          to |-> "terminated"]}

LightningTransitions ==
    {[name |-> "connect",    from |-> "ready",     to |-> "connected"],
     [name |-> "disconnect", from |-> "connected", to |-> "ready"],
     [name |-> "terminate",  from |-> "connected", to |-> "ready"]}

LnIds == 1..MaxLightning

UnlockerIds == 1..MaxUnlocker

ShutdownIds == 1..MaxShutdowns

ConnectionTypes == {"local", "custom"}

\* How connect() of the Lightning connector can end: e.code of the error.
ConnectErrors ==
    {"LND_GRPC_HOST_ERROR", "LND_GRPC_CERT_ERROR", "LND_GRPC_MACAROON_ERROR",
     "12", "14"}

ConnectOutcomes == {"ok"} \cup ConnectErrors

\* A slot no instance occupies, and a new instance (FSM init: 'ready').
FreeConnector == [state |-> "free", op |-> "none", caller |-> "none", sh |-> 0]

NewConnector == [state |-> "ready", op |-> "none", caller |-> "none", sh |-> 0]

\* The Neutrino process: none while this.neutrino is undefined.
NoProcess == [status |-> "none", killed |-> FALSE, phase |-> 0]

NewProcess == [status |-> "running", killed |-> FALSE, phase |-> 0]

\* A shutdown: its promise, its 10 s timer, its 'close' listener, and how
\* often the transition that awaits it was resumed.
FreeShutdown ==
    [state |-> "free", timer |-> FALSE, handler |-> FALSE, resumed |-> 0]

NewShutdown ==
    [state |-> "pending", timer |-> TRUE, handler |-> TRUE, resumed |-> 0]

\* What a step records: the messages it sent to the renderer and the call
\* of shutdownNeutrino it made.
NoErrors == [host |-> "unset", cert |-> "unset", macaroon |-> "unset"]

Msg(name) == [msg |-> name, errors |-> NoErrors]

NoShutdownCall ==
    [kind |-> "none", type |-> "none", canTerminate |-> FALSE,
     process |-> "none", timers |-> {}, rpcs |-> {}, id |-> 0]

\* The controller after construction, with the active config loaded.
NewZapController(type) ==
    [state |-> NoState, pending |-> FALSE, transits |-> {},
     lndConfigType |-> type,
     neutrino |-> NoProcess,
     lightning |-> 0, lns |-> [i \in LnIds |-> FreeConnector],
     walletUnlocker |-> 0, unlockers |-> [i \in UnlockerIds |-> FreeConnector],
     leaked |-> {},
     ipc |-> {},
     shs |-> [k \in ShutdownIds |-> FreeShutdown],
     quit |-> FALSE,
     step |-> "new", result |-> "none", sent |-> <<>>, dialogs |-> <<>>,
     shutdown |-> NoShutdownCall, resolved |-> {}]

(***************************************************************************)
(* Instances and their slots.                                              *)
(***************************************************************************)
FreeSlots(table) == {i \in DOMAIN table : table[i].state = "free"}

LeastFree(table) ==
    CHOOSE i \in FreeSlots(table) : \A j \in FreeSlots(table) : i <= j

\* An instance the controller no longer refers to and that has no call in
\* flight can do nothing more; it is leaked if it is still connected.
Dropped(table, current, i) ==
    i # current /\ table[i].state # "free" /\ table[i].op = "none"

Collect(table, current) ==
    [i \in DOMAIN table |->
        IF Dropped(table, current, i) THEN FreeConnector ELSE table[i]]

Leaks(table, current) ==
    \E i \in DOMAIN table :
        Dropped(table, current, i) /\ table[i].state = "connected"

\* A shutdown can do nothing more once its promise is resolved, its timer
\* is no longer armed and its RPC has returned.
ShutdownDone(z, k) ==
    /\ z.shs[k].state = "resolved"
    /\ ~z.shs[k].timer
    /\ \A i \in LnIds : ~(z.lns[i].op = "terminate" /\ z.lns[i].sh = k)

\* The timers of shutdowns that are armed, and the Lightning instances
\* whose graceful stop has not returned.
Timers(z) == {k \in ShutdownIds : z.shs[k].timer}

Rpcs(z) == {i \in LnIds : z.lns[i].op = "terminate"}

\* The start of a step of the controller: what the last step recorded is
\* cleared.
Begin(z, name) ==
    [z EXCEPT !.step = name, !.result = "none", !.sent = <<>>,
              !.dialogs = <<>>,
              !.shutdown = NoShutdownCall, !.resolved = {}]

\* The end of a step: what can do nothing more is forgotten.
End(z) ==
    [z EXCEPT !.lns = Collect(z.lns, z.lightning),
              !.unlockers = Collect(z.unlockers, z.walletUnlocker),
              !.leaked = @ \cup
                  (IF Leaks(z.lns, z.lightning) THEN {"lightning"} ELSE {})
                  \cup (IF Leaks(z.unlockers, z.walletUnlocker)
                        THEN {"walletUnlocker"} ELSE {}),
              !.shs = [k \in ShutdownIds |->
                          IF ShutdownDone(z, k) THEN FreeShutdown
                          ELSE z.shs[k]]]

\* The bounds of the model on the instances in existence: a new instance
\* takes the place of the one the controller referred to, unless that one
\* has a call in flight.
LightningRoom(z) == FreeSlots(Collect(z.lns, 0)) # {}

UnlockerRoom(z) == FreeSlots(Collect(z.unlockers, 0)) # {}

ShutdownRoom(z) == FreeSlots(z.shs) # {}

(***************************************************************************)
(* Helpers of the controller.                                              *)
(***************************************************************************)
\* sendMessage(msg, data)
sendMessage(z, m) == [z EXCEPT !.sent = Append(@, m)]

\* dialog.showMessageBox({type: 'error', message})
showMessageBox(z, message) == [z EXCEPT !.dialogs = Append(@, message)]

\* this.neutrino.kill(): the signal is sent, the process exits later.
Kill(p) == IF p.status = "running" THEN [p EXCEPT !.killed = TRUE] ELSE p

\* The same without the check of the pending flag.
CtlFireIgnoringPending(z, name) ==
    FireIgnoringPending(ControllerTransitions, z.state, z.pending, name)

\* What calling a transition method of the controller does first.
CtlFire(z, name) == Fire(ControllerTransitions, z.state, z.pending, name)

\* this.lightning && this.lightning.can(name)
LightningCan(z, name) ==
    /\ z.lightning # 0
    /\ Can(LightningTransitions, z.lns[z.lightning].state,
           z.lns[z.lightning].op # "none", name)

\* A transition that waits for a promise, and the end of a transition.
Transit(name, from, step, ref) ==
    [name |-> name, from |-> from, step |-> step, ref |-> ref]

Suspend(z, t) == [z EXCEPT !.pending = TRUE, !.transits = @ \cup {t}]

EndTransit(z, t) == [z EXCEPT !.pending = FALSE, !.transits = @ \ {t}]

(***************************************************************************)
(* shutdownNeutrino(), up to the point where it returns its promise.       *)
(***************************************************************************)
\* The branch with this.lightning tested alone, without can('terminate').
ShutdownKindAlwaysGraceful(z) ==
    IF z.lndConfigType # "local" THEN "skip"
    ELSE IF z.lightning # 0 THEN "graceful"
    ELSE IF z.neutrino.status # "none" THEN "kill"
    ELSE "nothing"

\* The branch the call takes.
ShutdownKind(z) ==
    IF z.lndConfigType # "local" THEN "skip"
    ELSE IF LightningCan(z, "terminate") THEN "graceful"
    ELSE IF z.neutrino.status # "none" THEN "kill"
    ELSE "nothing"

shutdownNeutrino(z) ==
    LET kind == ShutdownKind(z)
        k    == IF kind = "graceful" THEN LeastFree(z.shs) ELSE 0
        call == [kind |-> kind, type |-> z.lndConfigType,
                 canTerminate |-> LightningCan(z, "terminate"),
                 process |-> z.neutrino.status,
                 timers |-> Timers(z), rpcs |-> Rpcs(z), id |-> k]
    IN  CASE kind = "graceful" ->
                \* setTimeout(..., 1000 * 10); this.neutrino.once('close',
                \* closeHandler); this.lightning.terminate()
                [z EXCEPT !.shs[k] = NewShutdown,
                          !.lns[z.lightning].op = "terminate",
                          !.lns[z.lightning].sh = k,
                          !.shutdown = call]
          [] kind = "kill" ->
                [z EXCEPT !.neutrino = Kill(@), !.shutdown = call]
          [] OTHER -> [z EXCEPT !.shutdown = call]

\* The promise of the call is still pending when the call returns.
ShutdownAwaited(z) == z.shutdown.kind = "graceful"

(***************************************************************************)
(* The callbacks of the transitions.                                       *)
(***************************************************************************)
\* _removeIpcListeners(); _registerIpcListeners()
ResetIpcListeners(z) == [z EXCEPT !.ipc = {"startLnd"}]

\* if (lifecycle.from === 'connected' && ...) this.lightning.disconnect()
\* else if (lifecycle.from === 'running') await this.shutdownNeutrino()
LeaveNode(z, from) ==
    IF from = "connected" /\ LightningCan(z, "disconnect")
    THEN [z EXCEPT !.lns[z.lightning].state = "ready"]
    ELSE IF from = "running" THEN shutdownNeutrino(z)
    ELSE z

\* onOnboarding: entered, the transition waits for the shutdown and then
\* for the 200 ms timer.
onOnboarding(z, from) ==
    LET z1 == LeaveNode(ResetIpcListeners(z), from)
    IN  IF ShutdownAwaited(z1)
        THEN Suspend(z1, Transit("startOnboarding", from, "shutdown",
                                 z1.shutdown.id))
        ELSE Suspend(z1, Transit("startOnboarding", from, "settle", 0))

\* onStartOnboarding
onStartOnboarding(z) == sendMessage(z, Msg("startOnboarding"))

\* onTerminate
onTerminate(z) == [z EXCEPT !.quit = TRUE]

\* onTerminated with onTerminate after it at once, the shutdown not awaited.
onTerminatedWithoutAwait(z, from) ==
    EndTransit(onTerminate(LeaveNode(z, from)),
               Transit("terminate", from, "shutdown", 0))

\* onTerminated, and onTerminate after it unless the shutdown is awaited.
onTerminated(z, from) ==
    LET z1 == LeaveNode(z, from)
        t  == Transit("terminate", from, "shutdown", z1.shutdown.id)
    IN  IF ShutdownAwaited(z1)
        THEN Suspend(z1, t)
        ELSE EndTransit(onTerminate(z1), t)

(***************************************************************************)
(* The transition methods.  A request the state machine refuses throws and *)
(* changes nothing; when the state does not change, only the callback of   *)
(* the transition runs.                                                    *)
(***************************************************************************)
startOnboarding(z) ==
    LET r  == CtlFire(z, "startOnboarding")
        zr == [z EXCEPT !.result = r]
    IN  IF r # "begin" THEN zr
        ELSE IF z.state = "onboarding" THEN onStartOnboarding(zr)
        ELSE onOnboarding([zr EXCEPT !.state = "onboarding"], z.state)

terminate(z) ==
    LET r  == CtlFire(z, "terminate")
        zr == [z EXCEPT !.result = r]
    IN  IF r # "begin" THEN zr
        ELSE IF z.state = "terminated" THEN onTerminate(zr)
        ELSE onTerminated([zr EXCEPT !.state = "terminated"], z.state)

\* startLightningWallet(), up to await this.lightning.connect()
startLightningWallet(z, caller) ==
    LET z0 == End([z EXCEPT !.lightning = 0])
        i  == LeastFree(z0.lns)
    IN  [z0 EXCEPT !.lightning = i,
                   !.lns[i] = [NewConnector EXCEPT !.op = "connect",
                                                   !.caller = caller]]

\* startWalletUnlocker(), up to await this.walletUnlocker.connect()
startWalletUnlocker(z) ==
    LET z0 == End([z EXCEPT !.walletUnlocker = 0])
        i  == LeastFree(z0.unlockers)
    IN  [z0 EXCEPT !.walletUnlocker = i,
                   !.unlockers[i] = [NewConnector EXCEPT !.op = "connect",
                                                         !.caller = "event"]]

\* startLnd(): onBeforeStartLnd waits for isLndRunning().
startLnd(z) ==
    LET r  == CtlFire(z, "startLnd")
        zr == [z EXCEPT !.result = r]
    IN  IF r # "begin" THEN zr
        ELSE Suspend(zr, Transit("startLnd", z.state, "isLndRunning", 0))

\* connectLnd(): onBeforeConnectLnd waits for startLightningWallet().
connectLnd(z) ==
    LET r  == CtlFire(z, "connectLnd")
        zr == [z EXCEPT !.result = r]
        z1 == startLightningWallet(zr, "connectLnd")
    IN  IF r # "begin" THEN zr
        ELSE Suspend(z1, Transit("connectLnd", z.state, "connect",
                                 z1.lightning))

\* finishOnboarding(options)
finishOnboarding(z, type) ==
    LET z1 == [z EXCEPT !.lndConfigType = type]
    IN  IF type = "local" THEN startLnd(z1) ELSE connectLnd(z1)

\* startNeutrino() with the unlocker connected at once, before any event.
startNeutrinoAndUnlocker(z) ==
    startWalletUnlocker(
        [z EXCEPT !.neutrino = NewProcess,
                  !.shs = [k \in ShutdownIds |->
                              [z.shs[k] EXCEPT !.handler = FALSE]]])

\* startNeutrino(): the listeners of the shutdowns were on the old object.
startNeutrino(z) ==
    [z EXCEPT !.neutrino = NewProcess,
              !.shs = [k \in ShutdownIds |-> [z.shs[k] EXCEPT !.handler = FALSE]]]

\* The errors onBeforeConnectLnd reports for e.code; "message" is e.message,
\* which the text for the codes other than 12 ends with.
ConnectErrorFields(code) ==
    LET e1 == IF code = "LND_GRPC_HOST_ERROR"
              THEN [NoErrors EXCEPT !.host = "message"] ELSE NoErrors
        e2 == IF code = "LND_GRPC_CERT_ERROR"
              THEN [e1 EXCEPT !.cert = "message"]
              ELSE IF code = "LND_GRPC_MACAROON_ERROR"
                   THEN [e1 EXCEPT !.macaroon = "message"]
                   ELSE e1
    IN  IF code = "12"
        THEN [e2 EXCEPT !.host = "Unable to connect to host. Please ensure wallet is unlocked before connecting."]
        ELSE [e2 EXCEPT !.host = "Unable to connect to host: message"]

(***************************************************************************)
(* The resolution of a shutdown: resolve() of a promise already resolved   *)
(* does nothing; the first one resumes the transition that awaits it.      *)
(***************************************************************************)
Awaiting(z, k) == {t \in z.transits : t.step = "shutdown" /\ t.ref = k}

Resume(z, t) ==
    IF t.name = "startOnboarding"
    THEN [z EXCEPT !.transits = (@ \ {t}) \cup
                       {Transit(t.name, t.from, "settle", 0)}]
    ELSE EndTransit(onTerminate(z), t)

Resolve(z, k) ==
    IF z.shs[k].state # "pending" THEN z
    ELSE LET z1 == [z EXCEPT !.shs[k].state = "resolved",
                             !.resolved = @ \cup {k}]
         IN  IF Awaiting(z, k) = {} THEN z1
             ELSE Resume([z1 EXCEPT !.shs[k].resumed = @ + 1],
                         CHOOSE t \in Awaiting(z, k) : TRUE)

\* closeHandler of shutdown k: clearTimeout(shutdownTimeout); resolve()
closeHandler(z, k) ==
    Resolve([z EXCEPT !.shs[k].timer = FALSE, !.shs[k].handler = FALSE], k)

RECURSIVE closeHandlers(_, _)
closeHandlers(z, ks) ==
    IF ks = {} THEN z
    ELSE LET k == CHOOSE x \in ks : \A y \in ks : x <= y
         IN  closeHandlers(closeHandler(z, k), ks \ {k})

ZapParked == zap = NewZapController("local")

(***************************************************************************)
(* reducers/lnd: the actions, the reducer and the selector.                *)
(***************************************************************************)
Heights == 0..MaxHeight

\* Heights of the documented scenario: reference 1000, node 500 then 1000,
\* cfilter 300 then 1000.
ScenarioHeights == {300, 500, 1000}

HeightValues == Heights \cup ScenarioHeights

SyncStatuses == {"pending", "waiting", "in-progress", "complete"}

\* state.info.data.identity_pubkey: a key, or none yet.
NoPubKey == "undefined"

PubKeys == {"pk1", "pk2"}

initialState ==
    [syncStatus          |-> "pending",
     lightningGrpcActive |-> FALSE,
     blockHeight         |-> 0,
     lndBlockHeight      |-> 0,
     lndCfilterHeight    |-> 0]

\* ACTION_HANDLERS[action.type](state, action), for the types it knows.
ACTION_HANDLERS(state, action) ==
    CASE action.type = "SET_SYNC_STATUS_PENDING" ->
             [state EXCEPT !.syncStatus = "pending"]
      [] action.type = "SET_SYNC_STATUS_WAITING" ->
             [state EXCEPT !.syncStatus = "waiting"]
      [] action.type = "SET_SYNC_STATUS_IN_PROGRESS" ->
             [state EXCEPT !.syncStatus = "in-progress"]
      [] action.type = "SET_SYNC_STATUS_COMPLETE" ->
             [state EXCEPT !.syncStatus = "complete"]
      [] action.type = "RECEIVE_CURRENT_BLOCK_HEIGHT" ->
             [state EXCEPT !.blockHeight = action.height]
      [] action.type = "RECEIVE_LND_BLOCK_HEIGHT" ->
             [state EXCEPT !.lndBlockHeight = action.height]
      [] action.type = "RECEIVE_LND_CFILTER_HEIGHT" ->
             [state EXCEPT !.lndCfilterHeight = action.height]
      [] action.type = "SET_LIGHTNING_WALLET_ACTIVE" ->
             [state EXCEPT !.lightningGrpcActive = TRUE]

HandledTypes ==
    {"SET_SYNC_STATUS_PENDING", "SET_SYNC_STATUS_WAITING",
     "SET_SYNC_STATUS_IN_PROGRESS", "SET_SYNC_STATUS_COMPLETE",
     "RECEIVE_CURRENT_BLOCK_HEIGHT", "RECEIVE_LND_BLOCK_HEIGHT",
     "RECEIVE_LND_CFILTER_HEIGHT", "SET_LIGHTNING_WALLET_ACTIVE"}

\* A reducer that answers an unknown action with initialState.
lndReducerResetsOnUnknown(state, action) ==
    IF action.type \in HandledTypes THEN ACTION_HANDLERS(state, action)
    ELSE initialState

\* handler ? handler(state, action) : state
lndReducer(state, action) ==
    IF action.type \in HandledTypes THEN ACTION_HANDLERS(state, action)
    ELSE state

\* The selector's arguments: the three input selectors applied to the state.
SelectorArgs(state) ==
    <<state.blockHeight, state.lndBlockHeight, state.lndCfilterHeight>>

NoMemo == [args |-> <<>>, result |-> Undefined]

\* createSelector: the result function runs only when an argument changed.
Select(m, state) ==
    LET args == SelectorArgs(state)
    IN  IF m.args = args THEN m
        ELSE [args |-> args,
              result |-> syncPercentage(args[1], args[2], args[3])]

\* The last height received for each counter; none yet: initialState's.
NoneReceived == [reference |-> 0, node |-> 0, cfilter |-> 0]

\* store.dispatch(action), followed by the selector's run on the new state.
Dispatch(action) ==
    /\ lnd' = lndReducer(lnd, action)
    /\ memo' = Select(memo, lnd')
    /\ UNCHANGED syncVars
    /\ UNCHANGED <<wuVars, zap>>

\* currentBlockHeight(event, height)
currentBlockHeight ==
    \E h \in HeightValues :
        /\ Dispatch([type |-> "RECEIVE_CURRENT_BLOCK_HEIGHT", height |-> h])
        /\ received' = [received EXCEPT !.reference = h]
        /\ UNCHANGED prevMemo

\* lndBlockHeight(event, height)
lndBlockHeight ==
    \E h \in HeightValues :
        /\ Dispatch([type |-> "RECEIVE_LND_BLOCK_HEIGHT", height |-> h])
        /\ received' = [received EXCEPT !.node = h]
        /\ UNCHANGED prevMemo

\* lndCfilterHeight(event, height)
lndCfilterHeight ==
    \E h \in HeightValues :
        /\ Dispatch([type |-> "RECEIVE_LND_CFILTER_HEIGHT", height |-> h])
        /\ received' = [received EXCEPT !.cfilter = h]
        /\ UNCHANGED prevMemo

\* Nothing stored for any key and nothing dispatched yet.
SyncParked ==
    /\ wallet = [k \in PubKeys |-> FALSE]
    /\ completed = {}
    /\ dispatched = <<>>

TrackerInit ==
    /\ lnd = initialState
    /\ received = NoneReceived
    /\ memo = Select(NoMemo, initialState)
    /\ prevMemo = NoMemo
    /\ SyncParked

TrackerNext ==
    \/ currentBlockHeight
    \/ lndBlockHeight
    \/ lndCfilterHeight

InitTracker == TrackerInit /\ WuParked /\ ZapParked

SpecTracker == InitTracker /\ [][TrackerNext]_vars

(***************************************************************************)
(* The selector alone: any three heights, then one of the node's heights   *)
(* is raised and the selector runs again.                                  *)
(***************************************************************************)
PctInit ==
    /\ lnd \in [syncStatus : {"pending"}, lightningGrpcActive : {FALSE},
                blockHeight : Heights, lndBlockHeight : Heights,
                lndCfilterHeight : Heights]
    /\ received = [reference |-> lnd.blockHeight, node |-> lnd.lndBlockHeight,
                   cfilter |-> lnd.lndCfilterHeight]
    /\ memo = NoMemo
    /\ prevMemo = NoMemo
    /\ SyncParked

\* The first run of the selector.
PctSelect ==
    /\ memo = NoMemo
    /\ memo' = Select(memo, lnd)
    /\ UNCHANGED <<lnd, received, prevMemo>>
    /\ UNCHANGED syncVars
    /\ UNCHANGED <<wuVars, zap>>

PctRaiseNode ==
    \E h \in Heights :
        /\ memo # NoMemo
        /\ h > lnd.lndBlockHeight
        /\ Dispatch([type |-> "RECEIVE_LND_BLOCK_HEIGHT", height |-> h])
        /\ received' = [received EXCEPT !.node = h]
        /\ prevMemo' = memo

PctRaiseCfilter ==
    \E h \in Heights :
        /\ memo # NoMemo
        /\ h > lnd.lndCfilterHeight
        /\ Dispatch([type |-> "RECEIVE_LND_CFILTER_HEIGHT", height |-> h])
        /\ received' = [received EXCEPT !.cfilter = h]
        /\ prevMemo' = memo

PctNext ==
    \/ PctSelect
    \/ PctRaiseNode
    \/ PctRaiseCfilter

InitPct == PctInit /\ WuParked /\ ZapParked

SpecPct == InitPct /\ [][PctNext]_vars

TrackerParked ==
    /\ lnd = initialState
    /\ received = NoneReceived
    /\ memo = NoMemo
    /\ prevMemo = NoMemo
    /\ SyncParked

(***************************************************************************)
(* reducers/lnd: the sync status.  What the renderer receives goes through *)
(* the thunks of the module; an action of any reducer reaches lndReducer.  *)
(***************************************************************************)
\* lndReducer for every action of a sequence in turn.
RECURSIVE Reduce(_, _)
Reduce(state, actions) ==
    IF actions = <<>> THEN state
    ELSE Reduce(lndReducer(state, Head(actions)), Tail(actions))

\* dispatch(action) for each action of a step, and the selector's run.
DispatchAll(actions) ==
    /\ lnd' = Reduce(lnd, actions)
    /\ memo' = Select(memo, lnd')
    /\ dispatched' = actions
    /\ UNCHANGED prevMemo
    /\ UNCHANGED <<wuVars, zap>>

\* What lndSyncStatus dispatches for a status: the switch.  setHasSynced
\* makes an action of the info reducer; the fetches are thunks.
StatusActions(status) ==
    CASE status = "waiting" -> <<[type |-> "SET_SYNC_STATUS_WAITING"]>>
      [] status = "in-progress" -> <<[type |-> "SET_SYNC_STATUS_IN_PROGRESS"]>>
      [] status = "complete" -> <<[type |-> "SET_SYNC_STATUS_COMPLETE"],
                                  [type |-> "SET_HAS_SYNCED"]>>
      [] OTHER -> <<[type |-> "SET_SYNC_STATUS_PENDING"]>>

\* lndSyncStatus(event, status), with the identity_pubkey that getState()
\* has at the time.
lndSyncStatus ==
    \E status \in SyncStatuses, pubKey \in PubKeys \cup {NoPubKey} :
        /\ wallet' = IF pubKey # NoPubKey
                      THEN [wallet EXCEPT ![pubKey] = TRUE]
                      ELSE wallet
        /\ completed' = IF pubKey # NoPubKey /\ status = "complete"
                         THEN completed \cup {pubKey}
                         ELSE completed
        /\ DispatchAll(StatusActions(status))
        /\ UNCHANGED received

\* lightningGrpcActive(): fetchInfo() is a thunk.
lightningGrpcActive ==
    /\ DispatchAll(<<[type |-> "SET_LIGHTNING_WALLET_ACTIVE"]>>)
    /\ UNCHANGED <<received, wallet, completed>>

SyncHeights == 0..MaxSyncHeight

\* currentBlockHeight, lndBlockHeight, lndCfilterHeight with a height of
\* SyncHeights.
ReceiveHeight ==
    \E h \in SyncHeights :
        /\ \/ /\ DispatchAll(<<[type |-> "RECEIVE_CURRENT_BLOCK_HEIGHT",
                                 height |-> h]>>)
              /\ received' = [received EXCEPT !.reference = h]
           \/ /\ DispatchAll(<<[type |-> "RECEIVE_LND_BLOCK_HEIGHT",
                                 height |-> h]>>)
              /\ received' = [received EXCEPT !.node = h]
           \/ /\ DispatchAll(<<[type |-> "RECEIVE_LND_CFILTER_HEIGHT",
                                 height |-> h]>>)
              /\ received' = [received EXCEPT !.cfilter = h]
        /\ UNCHANGED <<wallet, completed>>

\* An action of another reducer of the store.
OtherAction ==
    /\ DispatchAll(<<[type |-> "@@other"]>>)
    /\ UNCHANGED <<received, wallet, completed>>

SyncNext ==
    \/ lndSyncStatus
    \/ lightningGrpcActive
    \/ ReceiveHeight
    \/ OtherAction

InitSync == TrackerInit /\ WuParked /\ ZapParked

SpecSync == InitSync /\ [][SyncNext]_vars

InitConnector == WuInit /\ TrackerParked /\ ZapParked

SpecConnector == InitConnector /\ [][WuNext]_vars

(***************************************************************************)
(* The steps of the controller: the requests it receives and the events,   *)
(* timers and promises it reacts to.                                       *)
(***************************************************************************)
\* The completion of connect() with finishOnboarding sent after it.
lightningConnectedAndFinished(z, i) ==
    sendMessage(sendMessage([z EXCEPT !.lns[i].state = "connected",
                                      !.lns[i].op = "none",
                                      !.ipc = @ \cup {"lnd"}],
                            Msg("lightningGrpcActive")),
                Msg("finishOnboarding"))

\* What the completion of connect() does in startLightningWallet.
lightningConnected(z, i) ==
    sendMessage([z EXCEPT !.lns[i].state = "connected", !.lns[i].op = "none",
                          !.ipc = @ \cup {"lnd"}],
                Msg("lightningGrpcActive"))

lightningConnectFailed(z, i) == [z EXCEPT !.lns[i].op = "none"]

\* The .catch without its throw: the transition goes on.
onBeforeConnectLndSwallowsError(z, t, code) ==
    EndTransit([sendMessage(z, [msg |-> "startLndError",
                                errors |-> ConnectErrorFields(code)])
                EXCEPT !.state = "connected"], t)

\* onBeforeConnectLnd after startLightningWallet(): .then and .catch
onBeforeConnectLndResolved(z, t) ==
    EndTransit([sendMessage(z, Msg("finishOnboarding"))
                EXCEPT !.state = "connected"], t)

onBeforeConnectLndRejected(z, t, code) ==
    EndTransit(sendMessage(z, [msg |-> "startLndError",
                               errors |-> ConnectErrorFields(code)]), t)

\* onBeforeStartLnd with startNeutrino() after the dialog as well.
onBeforeStartLndSpawnsAnyway(z, t, res) ==
    LET z1 == IF res
              THEN startNeutrino(
                       [showMessageBox(z, "lnd is already running")
                        EXCEPT !.quit = TRUE, !.result = "already running"])
              ELSE startNeutrino([z EXCEPT !.result = "not running"])
    IN  EndTransit([z1 EXCEPT !.state = "running"], t)

\* onBeforeStartLnd after isLndRunning(), and the transition after it:
\* the promise of the callback resolves in either case (return app.quit()
\* resolves it with undefined), so the state machine goes on to 'running'.
onBeforeStartLndResolved(z, t, res) ==
    LET z1 == IF res
              THEN [showMessageBox(z, "lnd is already running")
                    EXCEPT !.quit = TRUE, !.result = "already running"]
              ELSE startNeutrino([z EXCEPT !.result = "not running"])
    IN  EndTransit([z1 EXCEPT !.state = "running"], t)

\* What the completion of connect() does in startWalletUnlocker.
walletUnlockerConnected(z, i) ==
    sendMessage([z EXCEPT !.unlockers[i].state = "connected",
                          !.unlockers[i].op = "none",
                          !.ipc = @ \cup {"walletUnlocker"},
                          !.result = "ok"],
                Msg("walletUnlockerGrpcActive"))

walletUnlockerConnectFailed(z, i) ==
    [z EXCEPT !.unlockers[i].op = "none", !.result = "error"]

\* this.lightning.terminate() of shutdown k: .then and .catch
lightningTerminated(z, i) ==
    [z EXCEPT !.lns[i].state = "ready", !.lns[i].op = "none",
              !.lns[i].sh = 0, !.result = "ok"]

lightningTerminateFailed(z, i, k) ==
    Resolve([z EXCEPT !.lns[i].op = "none", !.lns[i].sh = 0,
                      !.neutrino = Kill(@), !.result = "error"], k)

\* The callback of the timer without its resolve().
shutdownTimeoutKillsOnly(z, k) ==
    [z EXCEPT !.shs[k].timer = FALSE, !.shs[k].handler = FALSE,
              !.neutrino = Kill(@)]

\* The callback of the 10 s timer of shutdown k: the listener is removed,
\* the process killed, the promise resolved (this.neutrino is defined
\* wherever a timer is armed).
shutdownTimeout(z, k) ==
    Resolve([z EXCEPT !.shs[k].timer = FALSE, !.shs[k].handler = FALSE,
                      !.neutrino = Kill(@)], k)

\* this.neutrino.on('close', ...) with terminate() in every state.
onNeutrinoCloseAlwaysTerminates(z) ==
    terminate(showMessageBox(z, "lnd has unexpectedly quit"))

\* this.neutrino.on('close', ...) of startNeutrino
onNeutrinoClose(z) ==
    IF z.state \in {"running", "connected"}
    THEN terminate(showMessageBox(z, "lnd has unexpectedly quit"))
    ELSE z

\* The request of a transition would create a shutdown, a Lightning
\* instance: the bounds of the model apply to it.
WouldShutDown(z, name) ==
    /\ CtlFire(z, name) = "begin"
    /\ z.state = "running"
    /\ ShutdownKind(z) = "graceful"

WouldConnect(z, type) ==
    /\ type # "local"
    /\ CtlFire(z, "connectLnd") = "begin"

\* setTimeout(() => this.startOnboarding(), this.splashScreenTime)
StartOnboarding ==
    /\ WouldShutDown(zap, "startOnboarding") => ShutdownRoom(zap)
    /\ zap' = End(startOnboarding(Begin(zap, "startOnboarding")))
    /\ UNCHANGED <<lndVars, wuVars>>

\* A request to terminate, from the application.
Terminate ==
    /\ WouldShutDown(zap, "terminate") => ShutdownRoom(zap)
    /\ zap' = End(terminate(Begin(zap, "terminate")))
    /\ UNCHANGED <<lndVars, wuVars>>

\* The 200 ms timer of onOnboarding; onStartOnboarding ends the transition.
OnboardingSettled ==
    \E t \in zap.transits :
        /\ t.step = "settle"
        /\ zap' = End(EndTransit(onStartOnboarding(Begin(zap, "settled")), t))
        /\ UNCHANGED <<lndVars, wuVars>>

\* ipcMain.on('startLnd', (event, options) => this.finishOnboarding(options))
IpcStartLnd ==
    \E type \in ConnectionTypes :
        /\ "startLnd" \in zap.ipc
        /\ WouldConnect(zap, type) => LightningRoom(zap)
        /\ zap' = End(finishOnboarding(Begin(zap, "ipc startLnd"), type))
        /\ UNCHANGED <<lndVars, wuVars>>

\* How a request finds the connector it is forwarded to.
ConnectorStatus(table, current) ==
    IF current = 0 THEN "undefined"
    ELSE IF table[current].op = "connect" THEN "connecting"
    ELSE IF table[current].op = "terminate" THEN "terminating"
    ELSE table[current].state

\* ipcMain.on('lnd', (event, { msg, data }) =>
\*     this.lightning.registerMethods(event, msg, data))
IpcLnd ==
    /\ "lnd" \in zap.ipc
    /\ zap' = End([Begin(zap, "ipc lnd") EXCEPT
                      !.result = ConnectorStatus(zap.lns, zap.lightning)])
    /\ UNCHANGED <<lndVars, wuVars>>

\* ipcMain.on('walletUnlocker', (event, { msg, data }) =>
\*     this.walletUnlocker.registerMethods(event, msg, data))
IpcWalletUnlocker ==
    /\ "walletUnlocker" \in zap.ipc
    /\ zap' = End([Begin(zap, "ipc walletUnlocker") EXCEPT
                      !.result = ConnectorStatus(zap.unlockers,
                                                 zap.walletUnlocker)])
    /\ UNCHANGED <<lndVars, wuVars>>

\* isLndRunning() resolves; a process of ours that has not exited is found.
IsLndRunning ==
    \E t \in zap.transits, res \in BOOLEAN :
        /\ t.step = "isLndRunning"
        /\ zap.neutrino.status = "running" => res
        /\ zap' = End(onBeforeStartLndResolved(
                      Begin(zap, "isLndRunning"), t, res))
        /\ UNCHANGED <<lndVars, wuVars>>

\* this.neutrino.on('wallet-unlocker-grpc-active', ...)
WalletUnlockerGrpcActive ==
    /\ zap.neutrino.status = "running"
    /\ zap.neutrino.phase = 0
    /\ UnlockerRoom(zap)
    /\ zap' = End(startWalletUnlocker(
                      [Begin(zap, "wallet-unlocker-grpc-active")
                       EXCEPT !.neutrino.phase = 1]))
    /\ UNCHANGED <<lndVars, wuVars>>

\* this.neutrino.on('lightning-grpc-active', ...)
LightningGrpcActive ==
    /\ zap.neutrino.status = "running"
    /\ zap.neutrino.phase = 1
    /\ LightningRoom(zap)
    /\ zap' = End(startLightningWallet(
                      [Begin(zap, "lightning-grpc-active")
                       EXCEPT !.neutrino.phase = 2], "event"))
    /\ UNCHANGED <<lndVars, wuVars>>

\* await this.walletUnlocker.connect() returns or throws; the local node
\* answers only while its process runs.
WalletUnlockerConnected ==
    \E i \in UnlockerIds, ok \in BOOLEAN :
        /\ zap.unlockers[i].op = "connect"
        /\ ok => zap.neutrino.status = "running"
        /\ LET z == Begin(zap, "walletUnlocker.connect")
           IN  zap' = End(IF ok THEN walletUnlockerConnected(z, i)
                          ELSE walletUnlockerConnectFailed(z, i))
        /\ UNCHANGED <<lndVars, wuVars>>

\* await this.lightning.connect() returns or throws, in the handler of
\* 'lightning-grpc-active' or in onBeforeConnectLnd.
LightningConnected ==
    \E i \in LnIds, outcome \in ConnectOutcomes :
        /\ zap.lns[i].op = "connect"
        /\ zap.lns[i].caller = "event" /\ outcome = "ok"
               => zap.neutrino.status = "running"
        /\ LET z  == [Begin(zap, IF zap.lns[i].caller = "event"
                                 THEN "lightning-grpc-active: connect"
                                 ELSE "connectLnd: connect")
                      EXCEPT !.result = IF zap.lns[i].caller = "event"
                                           /\ outcome # "ok"
                                        THEN "error" ELSE outcome]
               ts == {t \in z.transits : t.step = "connect" /\ t.ref = i}
               z1 == IF outcome = "ok" THEN lightningConnected(z, i)
                     ELSE lightningConnectFailed(z, i)
           IN  zap' = End(IF ts = {} THEN z1
                      ELSE IF outcome = "ok"
                      THEN onBeforeConnectLndResolved(
                               z1, CHOOSE t \in ts : TRUE)
                      ELSE onBeforeConnectLndRejected(
                               z1, CHOOSE t \in ts : TRUE, outcome))
        /\ UNCHANGED <<lndVars, wuVars>>

\* this.lightning.terminate() of a shutdown returns or throws; the daemon
\* answers only while its process runs.
LightningTerminated ==
    \E i \in LnIds, ok \in BOOLEAN :
        /\ zap.lns[i].op = "terminate"
        /\ ok => zap.neutrino.status = "running"
        /\ LET z == Begin(zap, "lightning.terminate")
               k == zap.lns[i].sh
           IN  zap' = End(IF ok THEN lightningTerminated(z, i)
                          ELSE lightningTerminateFailed(z, i, k))
        /\ UNCHANGED <<lndVars, wuVars>>

\* The 10 s timer of a shutdown.
ShutdownTimeout ==
    \E k \in ShutdownIds :
        /\ zap.shs[k].timer
        /\ zap' = End(shutdownTimeout(Begin(zap, "shutdownTimeout"), k))
        /\ UNCHANGED <<lndVars, wuVars>>

\* The process exits: this.neutrino.on('close', ...) of startNeutrino, then
\* the closeHandlers of the shutdowns that listen.
NeutrinoClose ==
    /\ zap.neutrino.status = "running"
    /\ WouldShutDown(zap, "terminate") => ShutdownRoom(zap)
    /\ LET z  == [Begin(zap, "close") EXCEPT !.neutrino.status = "closed"]
           z1 == onNeutrinoClose(z)
       IN  zap' = End(closeHandlers(z1,
                          {k \in ShutdownIds : z.shs[k].handler}))
    /\ UNCHANGED <<lndVars, wuVars>>

ZapInit == \E type \in ConnectionTypes : zap = NewZapController(type)

ZapNext ==
    \/ StartOnboarding
    \/ Terminate
    \/ OnboardingSettled
    \/ IpcStartLnd
    \/ IpcLnd
    \/ IpcWalletUnlocker
    \/ IsLndRunning
    \/ WalletUnlockerGrpcActive
    \/ LightningGrpcActive
    \/ WalletUnlockerConnected
    \/ LightningConnected
    \/ LightningTerminated
    \/ ShutdownTimeout
    \/ NeutrinoClose

Init == ZapInit /\ TrackerParked /\ WuParked

Spec == Init /\ [][ZapNext]_vars

\* Timers fire.
SpecFair == Spec /\ WF_vars(ShutdownTimeout)

(***************************************************************************)
(* Claims about the sync percentage.                                       *)
(***************************************************************************)
\* floor((l + c) / (2 * b) * 100) over the rationals, for b > 0.
ExactPercentage(b, l, c) == (100 * (l + c)) \div (2 * b)

\* C1: for all non-negative b, l, c the selector returns exactly
\* floor((l + c) / (2 * b) * 100) when b > 0, and undefined when b = 0.
C1_SelectorIsExactFloor ==
    memo # NoMemo =>
        LET b == memo.args[1]
            l == memo.args[2]
            c == memo.args[3]
        IN  IF b = 0 THEN memo.result = Undefined
            ELSE memo.result = ExactPercentage(b, l, c)

\* C2: for a fixed reference height b > 0 the percentage does not decrease
\* when the node block height or the node cfilter height is raised.
C2_Monotonic ==
    (/\ memo # NoMemo
     /\ prevMemo # NoMemo
     /\ memo.args[1] = prevMemo.args[1]
     /\ memo.args[1] > 0
     /\ prevMemo.args[2] <= memo.args[2]
     /\ prevMemo.args[3] <= memo.args[3])
        => prevMemo.result <= memo.result

\* A raise that changed the percentage of a reference height above zero.
C2_Witness ==
    /\ memo # NoMemo
    /\ prevMemo # NoMemo
    /\ memo.args[1] = prevMemo.args[1]
    /\ memo.args[1] > 0
    /\ prevMemo.args[2] < memo.args[2]
    /\ prevMemo.args[3] = memo.args[3]
    /\ prevMemo.result < memo.result
    /\ memo.result > 100

\* C3: after any sequence of height updates the reported percentage is the
\* formula applied to the last value received for each counter.
C3_ReportsFormulaOfLatest ==
    memo.result =
        IF received.reference = 0 THEN Undefined
        ELSE ExactPercentage(received.reference, received.node,
                             received.cfilter)

(***************************************************************************)
(* Claims about the service connector.                                     *)
(***************************************************************************)
\* C4: a connect() issued while an earlier connect() is in flight fails at
\* once and starts no second dial; at most one connection attempt of an
\* instance is in progress at any time.
C4_OneConnectAtATime ==
    /\ Len(wuCalls) <= 1
    /\ wuOpen <= 1
    /\ (wuLast.op = "connect" /\ wuLast.inFlight > 0) =>
           /\ wuLast.outcome = "pending"
           /\ Len(wuCalls) = wuLast.inFlight
           /\ wuOpen = wuLast.open

\* A connect() was called during the ready-wait of an earlier one.
C4_Witness ==
    /\ wuLast.op = "connect"
    /\ wuLast.inFlight = 1
    /\ wuLast.outcome = "pending"
    /\ wuCalls = <<"waitForReady">>

\* C5: disconnect() on an idle connector is a no-op that does not fail.
C5_DisconnectIdleDoesNotFail ==
    (wuLast.op = "disconnect" /\ wuLast.before.state = "ready") =>
        wuLast.outcome = "disconnected"

\* C5, amended: disconnect() on an idle connector is rejected as an invalid
\* transition; it closes no channel and leaves the connector as it was.
C5_DisconnectIdleIsRejected ==
    (wuLast.op = "disconnect" /\ wuLast.before.state = "ready") =>
        /\ wuLast.outcome = "invalid"
        /\ wu = wuLast.before
        /\ wuOpen = wuLast.open
        /\ Len(wuCalls) = wuLast.inFlight

\* A second disconnect() right after a first one.
C5_Witness ==
    /\ wuLast.op = "disconnect"
    /\ wuLast.before.state = "ready"
    /\ wuLast.before.service = "closed"
    /\ ~wuLast.before.pending

(***************************************************************************)
(* The controller's shutdown of the node.                                  *)
(***************************************************************************)
\* The last step called shutdownNeutrino for a local node whose process
\* existed, with no Lightning connection able to terminate.
ShutdownWithoutConnection ==
    /\ zap.shutdown.kind # "none"
    /\ zap.shutdown.type = "local"
    /\ ~zap.shutdown.canTerminate
    /\ zap.shutdown.process # "none"

\* C6: when shutdown of a local node is invoked and no Lightning connection
\* can issue the graceful stop, the process is killed within that step (a
\* process that still runs has received the kill), the step arms no
\* deadline timer and issues no graceful-stop RPC.
C6_NoConnectionKillsAtOnce ==
    ShutdownWithoutConnection =>
        /\ zap.neutrino.status = "running" => zap.neutrino.killed
        /\ Timers(zap) \subseteq zap.shutdown.timers
        /\ Rpcs(zap) \subseteq zap.shutdown.rpcs
        /\ zap.shutdown.id = 0

\* The teardown of onboarding found the process running and no connection.
C6_Witness ==
    /\ ShutdownWithoutConnection
    /\ zap.step = "startOnboarding"
    /\ zap.shutdown.process = "running"
    /\ zap.neutrino.status = "running"
    /\ zap.neutrino.killed
    /\ Timers(zap) = {}

\* The transitions that wait for shutdown k.
Pending(k) == zap.shs[k].state = "pending"

\* C7: a shutdown with a live Lightning connection always completes: while
\* its promise is pending its deadline timer is armed and exactly one
\* transition waits for it; the timer's callback kills the process and
\* leaves no shutdown pending whose timer is spent; and the promise is
\* eventually resolved, whether 'close' arrives, the graceful stop fails or
\* neither happens.
C7_ShutdownCompletes ==
    /\ [](\A k \in ShutdownIds :
            Pending(k) => /\ zap.shs[k].timer
                          /\ Cardinality(Awaiting(zap, k)) = 1)
    /\ [](zap.step = "shutdownTimeout" /\ zap.neutrino.status = "running"
            => zap.neutrino.killed)
    /\ \A k \in ShutdownIds : Pending(k) ~> ~Pending(k)

\* Neither 'close' nor the answer of the graceful stop has arrived: the
\* timer has killed the process and resolved the shutdown, and the
\* transition that waited for it has gone on.
C7_Witness ==
    /\ zap.step = "shutdownTimeout"
    /\ zap.resolved # {}
    /\ Rpcs(zap) # {}
    /\ zap.neutrino.status = "running"
    /\ zap.neutrino.killed
    /\ \A k \in zap.resolved : zap.shs[k].resumed = 1 /\ Awaiting(zap, k) = {}

(***************************************************************************)
(* The controller's notifications on the local path and on the remote one. *)
(***************************************************************************)
\* The (original) statement of C8: on the local path the connection of the
\* Lightning connector is followed by lightning-active and then
\* onboarding-finished.
C8_LocalPathFinishesOnboarding ==
    zap.step = "lightning-grpc-active: connect" /\ zap.result = "ok" =>
        zap.sent = <<Msg("lightningGrpcActive"), Msg("finishOnboarding")>>

\* C8: on the local path, 'wallet-unlocker-grpc-active' opens the unlocker
\* connector, whose connection is followed by unlocker-active alone;
\* 'lightning-grpc-active' opens the Lightning connector, whose connection
\* is followed by lightning-active alone; onboarding-finished is sent only
\* by connectLnd, when it enters connected.
C8_LocalPathNotifications ==
    /\ zap.step = "wallet-unlocker-grpc-active" =>
          /\ zap.walletUnlocker # 0
          /\ zap.unlockers[zap.walletUnlocker].op = "connect"
    /\ zap.step = "walletUnlocker.connect" /\ zap.result = "ok" =>
          zap.sent = <<Msg("walletUnlockerGrpcActive")>>
    /\ zap.step = "lightning-grpc-active" =>
          /\ zap.lightning # 0
          /\ zap.lns[zap.lightning].op = "connect"
    /\ zap.step = "lightning-grpc-active: connect" /\ zap.result = "ok" =>
          zap.sent = <<Msg("lightningGrpcActive")>>
    /\ (\E n \in 1..Len(zap.sent) : zap.sent[n].msg = "finishOnboarding") =>
          /\ zap.step = "connectLnd: connect"
          /\ zap.state = "connected"

\* The Lightning connector of the local node has connected.
C8_Witness ==
    /\ zap.step = "lightning-grpc-active: connect"
    /\ zap.result = "ok"
    /\ zap.state = "running"
    /\ "walletUnlocker" \in zap.ipc
    /\ "lnd" \in zap.ipc

\* C9: when the connection of the Lightning connector fails in connectLnd,
\* whatever the error, the transition is rejected: the controller is in
\* onboarding with no transition in flight, one startLndError and nothing
\* else has been sent, and connectLnd can be requested again.
C9_FailedConnectStaysInOnboarding ==
    zap.step = "connectLnd: connect" /\ zap.result \in ConnectErrors =>
        /\ zap.state = "onboarding"
        /\ ~zap.pending
        /\ zap.transits = {}
        /\ zap.sent = <<[msg |-> "startLndError",
                         errors |-> ConnectErrorFields(zap.result)]>>
        /\ "startLnd" \in zap.ipc
        /\ CtlFire(zap, "connectLnd") = "begin"

C9_Witness ==
    /\ zap.step = "connectLnd: connect"
    /\ zap.result = "LND_GRPC_CERT_ERROR"
    /\ zap.state = "onboarding"
    /\ Len(zap.sent) = 1

\* C10: the controller never runs two transitions at once: at most one is
\* in flight, the state machine is pending while it is, and a transition
\* requested meanwhile is refused: the step that requests it starts
\* nothing, sends nothing and shuts nothing down.
C10_OneTransitionAtATime ==
    /\ Cardinality(zap.transits) <= 1
    /\ zap.transits # {} => zap.pending
    /\ zap.result = "pending" =>
          /\ zap.transits # {}
          /\ zap.sent = <<>>
          /\ zap.shutdown = NoShutdownCall

\* terminate was requested while the teardown of onboarding waited for
\* the shutdown of the node.
C10_Witness ==
    /\ zap.step = "terminate"
    /\ zap.result = "pending"
    /\ zap.state = "onboarding"
    /\ \E t \in zap.transits : t.name = "startOnboarding" /\ t.step = "shutdown"

(***************************************************************************)
(* The states of the controller.                                           *)
(***************************************************************************)
\* C11: terminated is absorbing: once the controller is in terminated, no
\* step moves it to another state.
C11_TerminatedIsAbsorbing ==
    [][zap.state = "terminated" => zap'.state = "terminated"]_vars

\* The process has exited while the controller was in running or connected.
UnexpectedExit == zap.step = "close" /\ zap.result = "begin"

\* The terminate transition has ended: onTerminate has called app.quit().
Exited ==
    /\ zap.state = "terminated"
    /\ zap.quit
    /\ \A t \in zap.transits : t.name # "terminate"

\* C12: when the process exits while the controller is in running or
\* connected, the user is told, the controller enters terminated and
\* application exit is eventually triggered; when it exits in any other
\* state, no terminate is requested and the state is kept.
C12_UnexpectedExitTerminates ==
    /\ [][zap'.step = "close" /\ zap'.neutrino # zap.neutrino =>
            IF zap.state \in {"running", "connected"}
            THEN /\ zap'.result = "begin"
                 /\ zap'.state = "terminated"
                 /\ zap'.dialogs = <<"lnd has unexpectedly quit">>
            ELSE /\ zap'.result = "none"
                 /\ zap'.state = zap.state
                 /\ zap'.dialogs = <<>>]_vars
    /\ UnexpectedExit ~> Exited

\* The process has exited in running with a connection to the daemon: the
\* user is told and terminate waits for the shutdown.
C12_Witness ==
    /\ UnexpectedExit
    /\ zap.state = "terminated"
    /\ ~zap.quit
    /\ zap.dialogs = <<"lnd has unexpectedly quit">>
    /\ \E t \in zap.transits : t.name = "terminate" /\ t.from = "running"

(***************************************************************************)
(* The check for a node that is already running.                           *)
(***************************************************************************)
\* isLndRunning() has found a node in the last step.
AlreadyRunning == zap.step = "isLndRunning" /\ zap.result = "already running"

\* C13: the check precedes every spawn: a process is spawned only by the
\* step in which isLndRunning() has found none, and when it has found one,
\* no process is spawned, the user is told and application exit is
\* triggered.
C13_CheckPrecedesSpawn ==
    /\ [][zap'.step = "isLndRunning" /\ zap'.result = "already running" =>
            /\ zap'.neutrino = zap.neutrino
            /\ zap'.quit
            /\ zap'.dialogs = <<"lnd is already running">>]_vars
    /\ [][zap'.neutrino # zap.neutrino /\ zap'.neutrino = NewProcess =>
            /\ zap'.step = "isLndRunning"
            /\ zap'.result = "not running"]_vars

\* A node was found while the controller's own process had not exited.
C13_Witness ==
    /\ AlreadyRunning
    /\ zap.quit
    /\ zap.neutrino.status = "running"
    /\ zap.neutrino.phase = 2

\* C20: when a node is found to be running already, startLnd is rejected:
\* the controller does not enter running.
C20_AlreadyRunningRejectsStartLnd ==
    AlreadyRunning => zap.state # "running"

(***************************************************************************)
(* The requests of the renderer to the services.                           *)
(***************************************************************************)
\* C14: a request for a service method is forwarded to a connector only
\* while that connector is connected.
C14_ForwardedOnlyWhileConnected ==
    zap.step \in {"ipc lnd", "ipc walletUnlocker"} => zap.result = "connected"

(***************************************************************************)
(* The order of the connections on the local path.                         *)
(***************************************************************************)
\* A step starts the connection of an instance of the table.
StartsConnect(before, after, i) ==
    after[i].op = "connect" /\ before[i].op # "connect"

\* C15: the connection of a WalletUnlocker is started only by the step in
\* which the running process emits 'wallet-unlocker-grpc-active'; the
\* connection of a Lightning is started for the local node only by the
\* step in which the running process, having emitted the former, emits
\* 'lightning-grpc-active'; any other one is started by connectLnd, for a
\* config that is not local.
C15_ConnectsFollowServiceActive ==
    /\ [][\A i \in UnlockerIds :
            StartsConnect(zap.unlockers, zap'.unlockers, i) =>
                /\ zap'.step = "wallet-unlocker-grpc-active"
                /\ zap.neutrino.status = "running"
                /\ zap.neutrino.phase = 0
                /\ zap'.neutrino.phase = 1]_vars
    /\ [][\A i \in LnIds :
            StartsConnect(zap.lns, zap'.lns, i) =>
                IF zap'.lns[i].caller = "event"
                THEN /\ zap'.step = "lightning-grpc-active"
                     /\ zap.neutrino.status = "running"
                     /\ zap.neutrino.phase = 1
                     /\ zap'.neutrino.phase = 2
                ELSE /\ zap'.step = "ipc startLnd"
                     /\ zap'.lndConfigType # "local"]_vars

\* The Lightning connector of the local node starts to connect.
C15_Witness ==
    /\ zap.step = "lightning-grpc-active"
    /\ zap.state = "running"
    /\ zap.lndConfigType = "local"
    /\ zap.neutrino.phase = 2
    /\ zap.lns[zap.lightning].op = "connect"
    /\ zap.lns[zap.lightning].caller = "event"
    /\ zap.walletUnlocker # 0

(***************************************************************************)
(* What the teardowns leave behind.                                        *)
(***************************************************************************)
\* C16: when the entry into onboarding has completed, no connector is
\* connected, no process is left running that has not been killed, and the
\* only IPC listener is the one for 'startLnd'.
C16_OnboardingLeavesNothingBehind ==
    zap.step = "settled" =>
        /\ \A i \in UnlockerIds : zap.unlockers[i].state # "connected"
        /\ \A i \in LnIds : zap.lns[i].state # "connected"
        /\ zap.leaked = {}
        /\ ~(zap.neutrino.status = "running" /\ ~zap.neutrino.killed)
        /\ zap.ipc \subseteq {"startLnd"}

\* A terminate has been accepted in the last step.
TerminateAccepted ==
    zap.step \in {"terminate", "close"} /\ zap.result = "begin"

\* C17: application exit is requested by terminate only after the teardown:
\* in the step in which terminate requests it, the controller is in
\* terminated, no terminate waits any more, no shutdown is pending and a
\* connection left from connected has been disconnected; and every
\* terminate that is accepted ends with the request.
C17_ExitAfterTeardown ==
    /\ [][zap'.quit /\ ~zap.quit /\ zap'.step # "isLndRunning" =>
            /\ zap'.state = "terminated"
            /\ \A t \in zap'.transits : t.name # "terminate"
            /\ \A k \in ShutdownIds : zap'.shs[k].state # "pending"
            /\ zap.state = "connected" => ~LightningCan(zap', "disconnect")]_vars
    /\ TerminateAccepted ~> Exited

\* The process has exited during the shutdown that terminate waited for:
\* the shutdown is resolved and exit is requested.
C17_Witness ==
    /\ zap.step = "close"
    /\ zap.result = "none"
    /\ zap.resolved # {}
    /\ zap.state = "terminated"
    /\ zap.transits = {}
    /\ zap.quit

(***************************************************************************)
(* A connect() of the WalletUnlocker that fails.                           *)
(***************************************************************************)
ConnectFailures ==
    {"LND_GRPC_HOST_ERROR", "LND_GRPC_CERT_ERROR", "LND_GRPC_MACAROON_ERROR",
     "DEADLINE_EXCEEDED"}

ConnectFailed ==
    wuLast.op = "connect-settled" /\ wuLast.outcome # "connected"

\* C18: after a connect() that failed, the connector is in 'ready' with no
\* transition pending, the caller has the error, and no gRPC channel is
\* open: a failure before the client is created leaves the service as it
\* was, a failure of waitForReady has closed the client it created.
C18_FailedConnectLeavesIdle ==
    ConnectFailed =>
        /\ wuLast.outcome \in ConnectFailures
        /\ wu.state = "ready" /\ ~wu.pending
        /\ wuCalls = <<>>
        /\ wuOpen = 0
        /\ IF wuLast.outcome = "DEADLINE_EXCEEDED"
           THEN /\ wuLast.before.service = "open"
                /\ wuLast.open = 1
                /\ wu.service = "closed"
           ELSE /\ wuLast.before.service # "open"
                /\ wuLast.open = 0
                /\ wu.service = wuLast.before.service

\* waitForReady has failed and the client made for it is closed.
C18_Witness ==
    /\ ConnectFailed
    /\ wuLast.outcome = "DEADLINE_EXCEEDED"
    /\ wuLast.before.service = "open"
    /\ wu.service = "closed"
    /\ wuOpen = 0

(***************************************************************************)
(* The errors of a connectLnd that failed.                                 *)
(***************************************************************************)
\* C19: the errors sent after a failed connectLnd name the broken artifact
\* and nothing else: the cert field is set for a certificate error only,
\* the macaroon field for a macaroon error only, the host field for a
\* host-validation error, code 12 and the other transport errors only, and
\* for a host-validation error it is the error's own message.
C19_ErrorsNameTheBrokenArtifact ==
    zap.step = "connectLnd: connect" /\ zap.result \in ConnectErrors =>
        LET errors == zap.sent[1].errors
        IN  /\ errors.cert # "unset" <=> zap.result = "LND_GRPC_CERT_ERROR"
            /\ errors.macaroon # "unset" <=>
                   zap.result = "LND_GRPC_MACAROON_ERROR"
            /\ errors.host # "unset" <=>
                   zap.result \in {"LND_GRPC_HOST_ERROR", "12", "14"}
            /\ zap.result = "LND_GRPC_HOST_ERROR" => errors.host = "message"

(***************************************************************************)
(* The connects of the local path.                                         *)
(***************************************************************************)
\* A connect started by a service-active event of the node has failed.
LocalConnectFailed ==
    /\ zap.step \in {"walletUnlocker.connect", "lightning-grpc-active: connect"}
    /\ zap.result = "error"

\* C21: when a connect started by a service-active event of the local node
\* fails, the step that handles the failure sends a startLndError to the
\* renderer and leaves the state of the controller as it was.
C21_LocalConnectFailureIsRelayed ==
    [][LocalConnectFailed' =>
          /\ \E n \in 1..Len(zap'.sent) : zap'.sent[n].msg = "startLndError"
          /\ zap'.state = zap.state]_vars

\* C22: the connectors of the local path are opened one after the other:
\* no connect of a WalletUnlocker is in flight when the lightning connect
\* is started by 'lightning-grpc-active', nor when that connect completes
\* and lightningGrpcActive is sent.
C22_UnlockerBeforeLightning ==
    \/ zap.step = "lightning-grpc-active"
    \/ zap.step = "lightning-grpc-active: connect" /\ zap.result = "ok"
    => \A i \in UnlockerIds : zap.unlockers[i].op # "connect"

(***************************************************************************)
(* The lnd configuration in use.                                           *)
(***************************************************************************)
\* C23: while the controller is in running or connected, this.lndConfig
\* (saved, and set as the active connection, by the assignments that make
\* it) is not replaced, and a 'startLnd' message from the renderer changes
\* neither the state nor the configuration.
C23_ConfigKeptWhileInUse ==
    [][zap.state \in {"running", "connected"} =>
          /\ zap'.lndConfigType = zap.lndConfigType
          /\ zap'.step = "ipc startLnd" => zap'.state = zap.state]_vars

(***************************************************************************)
(* The sync status and the heights in the renderer.                        *)
(***************************************************************************)
\* C24: the hasSynced flag stored for a key is true only if a status
\* 'complete' has been received for that key.
C24_HasSyncedOnlyAfterComplete ==
    \A k \in PubKeys : wallet[k] => k \in completed

\* The step has dispatched one action, of the given type.
Dispatched(type) == Len(dispatched) = 1 /\ dispatched[1].type = type

\* C25: a height update sets the counter it names to the height received
\* and leaves the two other counters, the sync status and the lightning
\* flag as they were; an action of a type the reducer does not know leaves
\* the whole state as it was.
C25_HeightUpdateSetsOneCounter ==
    [][/\ Dispatched("RECEIVE_CURRENT_BLOCK_HEIGHT")' =>
            /\ lnd'.blockHeight = dispatched'[1].height
            /\ lnd'.lndBlockHeight = lnd.lndBlockHeight
            /\ lnd'.lndCfilterHeight = lnd.lndCfilterHeight
            /\ lnd'.syncStatus = lnd.syncStatus
            /\ lnd'.lightningGrpcActive = lnd.lightningGrpcActive
       /\ Dispatched("RECEIVE_LND_BLOCK_HEIGHT")' =>
            /\ lnd'.lndBlockHeight = dispatched'[1].height
            /\ lnd'.blockHeight = lnd.blockHeight
            /\ lnd'.lndCfilterHeight = lnd.lndCfilterHeight
            /\ lnd'.syncStatus = lnd.syncStatus
            /\ lnd'.lightningGrpcActive = lnd.lightningGrpcActive
       /\ Dispatched("RECEIVE_LND_CFILTER_HEIGHT")' =>
            /\ lnd'.lndCfilterHeight = dispatched'[1].height
            /\ lnd'.blockHeight = lnd.blockHeight
            /\ lnd'.lndBlockHeight = lnd.lndBlockHeight
            /\ lnd'.syncStatus = lnd.syncStatus
            /\ lnd'.lightningGrpcActive = lnd.lightningGrpcActive
       /\ Dispatched("@@other")' => lnd' = lnd]_vars

\* A cfilter height has been received after the other two, the status and
\* the flag were set: only the cfilter counter has the new height.
C25_Witness ==
    /\ Dispatched("RECEIVE_LND_CFILTER_HEIGHT")
    /\ dispatched[1].height = 2
    /\ lnd = [syncStatus |-> "in-progress", lightningGrpcActive |-> TRUE,
              blockHeight |-> 1, lndBlockHeight |-> 1, lndCfilterHeight |-> 2]

(***************************************************************************)
(* The 10 s timer of a shutdown.                                           *)
(***************************************************************************)
\* The timer of shutdown k fires in this step and finds a running process
\* to kill.
TimerKills(k) ==
    /\ zap'.step = "shutdownTimeout"
    /\ zap.shs[k].timer /\ ~zap'.shs[k].timer
    /\ zap.neutrino.status = "running"

\* C26: the timer of a shutdown kills a process only for its own shutdown:
\* the shutdown is still pending (it has not killed the process and
\* resolved before), and its 'close' listener is still on this.neutrino
\* (the process is the one the shutdown was called for, not a later one).
C26_TimerKillsOnlyItsOwnProcess ==
    [][\A k \in ShutdownIds :
          TimerKills(k) => zap.shs[k].state = "pending" /\ zap.shs[k].handler]_vars

=============================================================================
